---- MODULE Spec2Model ----
(***************************************************************************)
(* The <graph-view> component of src/src/components/graph-view.ts: a page  *)
(* loader (fetchGraphData), the keyed merge of a page into the graph       *)
(* (updateGraph), the d3 rendering pass (renderGraph), node clicks and the *)
(* drag handlers.                                                          *)
(*                                                                         *)
(* Objects are modelled by value.  graphData.nodes only ever grows at its  *)
(* end (a JS Map keeps insertion order), so a node object is identified by *)
(* its position in graphData.nodes and a link's source/target pointer is   *)
(* that position, 0 standing for the JS value undefined.                   *)
(*                                                                         *)
(* The component calls into d3; the model takes from d3 what those calls   *)
(* do to the component:                                                    *)
(*  - forceLink.links(links) initialises the links at once and throws      *)
(*    "node not found" for a link whose source or target is no object;     *)
(*  - selection.on('click', f) replaces an earlier click listener;         *)
(*  - d3-drag passes event.active, the number of other active gestures, to *)
(*    the start and end listeners;                                         *)
(*  - simulation.nodes(nodes) gives every node a position.                 *)
(***************************************************************************)
EXTENDS Integers, Sequences, FiniteSets, Bags, TLC

VARIABLES
    updated,            \* firstUpdated() has run (svg and simulation exist)
    graphData,          \* this.graphData: [nodes, links]
    currentFileIndex,   \* this.currentFileIndex
    inflight,           \* bag of pending fetchGraphData calls [fileIndex, address]
    rendered,           \* number of circles in the DOM = nodes given to the simulation
    gestures,           \* d3-drag: the nodes with an active drag gesture
    alphaTarget,        \* simulation.alphaTarget(), in tenths
    console,            \* the last console.log / console.error: call site and arguments
    peakPending         \* history: the most fetches that were pending together

vars == <<updated, graphData, currentFileIndex, inflight, rendered, gestures, alphaTarget,
          console, peakPending>>

----------------------------------------------------------------------------
(* Bounds of the model *)

\* pending fetches at one time
MaxInFlight == 2
\* nodes in one page of the merge specification
MaxPageNodes == 2
\* links in one page of the merge specification
MaxPageLinks == 2

----------------------------------------------------------------------------
(* Program constants *)

\* currentFileIndex = 1
InitialFileIndex == 1
\* if (this.currentFileIndex <= 3)
MaxFileIndex == 3
\* alphaTarget(0.3), in tenths
DragAlphaTarget == 3
\* alphaTarget(0), in tenths
RestAlphaTarget == 0

SeedAddress == "0x2be59e62d811a1a8a25a937c4812313cf8bbe428"

UNDEFINED == "undefined"
NULL == "null"

----------------------------------------------------------------------------
(* The data source: what a page /data/N.json may hold *)

\* Positions on the canvas: the values of x/y, of fx/fy and of the pointer.  x and
\* y belong to d3's simulation and are read by the component only in dragstarted
\* and in ticked(); they are no state of the model, a read of d.x yields any
\* position.  y and fy are assigned in step with x and fx everywhere.
Coords == {"p0", "p1"}

\* GraphNode as parsed from JSON: no simulation fields yet
ParsedNode(a, n, t) ==
    [address |-> a, address_name |-> n, type |-> t, fx |-> UNDEFINED]

\* GraphLink as parsed from JSON: source/target not resolved yet
ParsedLink(i, f, t) ==
    [id |-> i, from |-> f, to |-> t, source |-> 0, target |-> 0]

Page(ns, ls) == [nodes |-> ns, links |-> ls]

\* The pages the component is run against
DataPages ==
    { \* the seed's page: two nodes and the link between them
      Page(<<ParsedNode(SeedAddress, "seed", "cex"), ParsedNode("0xb", "bob", "token")>>,
           <<ParsedLink("l1", SeedAddress, "0xb")>>),
      \* 0xb's page: 0xb again under another name and type, id l1 again with
      \* other endpoints, and a new node and link
      Page(<<ParsedNode("0xb", UNDEFINED, "dao"), ParsedNode("0xc", "carol", UNDEFINED)>>,
           <<ParsedLink("l1", "0xb", "0xc"), ParsedLink("l2", "0xb", "0xc")>>),
      \* a page whose link to 0xc comes without the node 0xc, and whose only
      \* link from the seed is its second link
      Page(<<>>,
           <<ParsedLink("l3", "0xb", "0xc"), ParsedLink("l3", SeedAddress, "0xb")>>),
      \* 0xc's page: 0xc twice, and its link back to the seed
      Page(<<ParsedNode("0xc", "carol", UNDEFINED), ParsedNode("0xc", "carl", "cex")>>,
           <<ParsedLink("l4", "0xc", SeedAddress)>>),
      \* a page without links
      Page(<<ParsedNode("0xc", "carol", UNDEFINED)>>, <<>>) }

----------------------------------------------------------------------------
(* updateGraph *)

HasNode(m, a) == \E i \in 1..Len(m) : m[i].address = a

\* Map.prototype.set keyed by address: replaces the value of an existing key
\* in place, appends a new key
SetNode(m, n) ==
    IF HasNode(m, n.address)
    THEN [i \in 1..Len(m) |-> IF m[i].address = n.address THEN n ELSE m[i]]
    ELSE Append(m, n)

RECURSIVE NodeMap(_)
\* new Map(nodes.map((n) => [n.address, n]))
NodeMap(nodes) ==
    IF nodes = <<>> THEN <<>>
    ELSE SetNode(NodeMap(SubSeq(nodes, 1, Len(nodes) - 1)), nodes[Len(nodes)])

\* the has() test left out: a later node overwrites the one first seen
AddNodeOverwrites(m, n) == SetNode(m, n)

\* if (!existingNodesMap.has(node.address)) existingNodesMap.set(node.address, node)
AddNode(m, n) == IF ~HasNode(m, n.address) THEN SetNode(m, n) ELSE m

RECURSIVE MergeNodes(_, _)
\* newData.nodes.forEach(...) over the map of the existing nodes
MergeNodes(m, new) ==
    IF new = <<>> THEN m
    ELSE MergeNodes(AddNode(m, Head(new)), Tail(new))

HasLink(m, id) == \E i \in 1..Len(m) : m[i].id = id

SetLink(m, l) ==
    IF HasLink(m, l.id)
    THEN [i \in 1..Len(m) |-> IF m[i].id = l.id THEN l ELSE m[i]]
    ELSE Append(m, l)

RECURSIVE LinkMap(_)
\* new Map(links.map((l) => [l.id, l]))
LinkMap(links) ==
    IF links = <<>> THEN <<>>
    ELSE SetLink(LinkMap(SubSeq(links, 1, Len(links) - 1)), links[Len(links)])

\* links collected in an array instead of a map keyed by id
AddLinkAlways(m, l) == Append(m, l)

\* if (!existingLinksMap.has(link.id)) existingLinksMap.set(link.id, link)
AddLink(m, l) == IF ~HasLink(m, l.id) THEN SetLink(m, l) ELSE m

RECURSIVE MergeLinks(_, _)
MergeLinks(m, new) ==
    IF new = <<>> THEN m
    ELSE MergeLinks(AddLink(m, Head(new)), Tail(new))

\* mergedNodes.find(n => n.address === a): the first match, 0 for undefined
Find(nodes, a) ==
    IF HasNode(nodes, a)
    THEN CHOOSE i \in 1..Len(nodes) :
            /\ nodes[i].address = a
            /\ \A j \in 1..(i - 1) : nodes[j].address # a
    ELSE 0

\* link.source = find(link.from); link.target = find(link.to)
Resolve(l, nodes) ==
    [l EXCEPT !.source = Find(nodes, l.from), !.target = Find(nodes, l.to)]

\* the value assigned to this.graphData by updateGraph(newData)
UpdateGraph(g, newData) ==
    LET mergedNodes == MergeNodes(NodeMap(g.nodes), newData.nodes)
        mergedLinks == MergeLinks(LinkMap(g.links), newData.links)
    IN  [nodes |-> mergedNodes,
         links |-> [i \in 1..Len(mergedLinks) |-> Resolve(mergedLinks[i], mergedNodes)]]

----------------------------------------------------------------------------
(* renderGraph *)

\* linkForce.links(links) runs d3-force's link initialisation, which does
\*   if (typeof link.source !== "object") link.source = find(nodeById, link.source)
\* and find throws Error("node not found") for an id that is no node: a link
\* whose source or target was left undefined makes renderGraph throw at its
\* first statement after the simulation check
LinkForceThrows(links) ==
    \E i \in 1..Len(links) : links[i].source = 0 \/ links[i].target = 0

\* renderGraph() throws on the graph g
RenderGraphThrows(g) == updated /\ LinkForceThrows(g.links)

\* updateGraph(newData): this.graphData is replaced, then renderGraph() either
\* returns at once (no simulation), throws in linkForce.links, or joins the
\* circles with the nodes and hands the nodes to the simulation
UpdateGraphCall(newData) ==
    LET merged == UpdateGraph(graphData, newData) IN
    /\ graphData' = merged
    /\ rendered' = IF updated /\ ~RenderGraphThrows(merged)
                   THEN Len(merged.nodes) ELSE rendered

----------------------------------------------------------------------------
(* fetchGraphData *)

Request(fileIndex, address) == [fileIndex |-> fileIndex, address |-> address]

\* a console message: where it is written, and the page index and address in it
Message(site, fileIndex, address) ==
    [site |-> site, fileIndex |-> fileIndex, address |-> address]

\* data.links.some(link => link.from === address)
LinkContainsAddress(data, address) ==
    \E i \in 1..Len(data.links) : data.links[i].from = address

Max(a, b) == IF a >= b THEN a ELSE b

\* the call fetchGraphData(fileIndex, address) up to its first await
IssueFetch(fileIndex, address) ==
    /\ inflight' = inflight (+) SetToBag({Request(fileIndex, address)})
    /\ peakPending' = Max(peakPending, BagCardinality(inflight) + 1)

\* the pending call r resumes and runs to its end
Settle(r) ==
    /\ BagIn(r, inflight)
    /\ inflight' = inflight (-) SetToBag({r})
    /\ UNCHANGED peakPending

Init ==
    /\ updated = FALSE
    /\ graphData = [nodes |-> <<>>, links |-> <<>>]
    /\ currentFileIndex = InitialFileIndex
    /\ inflight = EmptyBag
    /\ rendered = 0
    /\ gestures = {}
    /\ alphaTarget = RestAlphaTarget
    /\ console = Message("none", 0, "")
    /\ peakPending = 0

\* firstUpdated(): initSvg(), then the seed fetch
FirstUpdated ==
    /\ ~updated
    /\ updated' = TRUE
    /\ IssueFetch(currentFileIndex, SeedAddress)
    /\ UNCHANGED <<graphData, currentFileIndex, rendered, gestures, alphaTarget, console>>

\* await fetch(url) rejects (network error): the catch block logs
FetchRejects(r) ==
    /\ Settle(r)
    /\ console' = Message("requestError", 0, "")
    /\ UNCHANGED <<updated, graphData, currentFileIndex, rendered, gestures, alphaTarget>>

\* resp.ok and the body parses to data
FetchOk(r, data) ==
    /\ Settle(r)
    /\ IF LinkContainsAddress(data, r.address)
       THEN /\ UpdateGraphCall(data)
            \* a throw of renderGraph lands in the catch block, past the increment
            /\ IF RenderGraphThrows(UpdateGraph(graphData, data))
               THEN /\ console' = Message("requestError", 0, "")
                    /\ UNCHANGED currentFileIndex
               ELSE /\ currentFileIndex' = currentFileIndex + 1
                    /\ UNCHANGED console
       ELSE /\ console' = Message("notFound", r.fileIndex, r.address)
            /\ UNCHANGED <<graphData, currentFileIndex, rendered>>
    /\ UNCHANGED <<updated, gestures, alphaTarget>>

\* the return after the error message left out: the body is parsed and merged
FetchNotOkFallsThrough(r) == \E data \in DataPages : FetchOk(r, data)

\* !resp.ok: console.error, return
FetchNotOk(r) ==
    /\ Settle(r)
    /\ console' = Message("loadError", r.fileIndex, r.address)
    /\ UNCHANGED <<updated, graphData, currentFileIndex, rendered, gestures, alphaTarget>>

\* await resp.json() rejects (the body is no JSON): the catch block logs
JsonRejects(r) ==
    /\ Settle(r)
    /\ console' = Message("requestError", 0, "")
    /\ UNCHANGED <<updated, graphData, currentFileIndex, rendered, gestures, alphaTarget>>

----------------------------------------------------------------------------
(* onNodeClick *)

\* the bound taken one too high
HasMoreFilesOffByOne(fileIndex) == fileIndex <= MaxFileIndex + 1

\* this.currentFileIndex <= 3
HasMoreFiles(fileIndex) == fileIndex <= MaxFileIndex

\* a click on the circle of node i (the second .on('click') replaces the first,
\* so one listener runs)
NodeClick(i) ==
    /\ i \in 1..rendered
    /\ console' = Message("click", currentFileIndex, graphData.nodes[i].address)
    /\ IF HasMoreFiles(currentFileIndex)
       THEN /\ BagCardinality(inflight) < MaxInFlight
            /\ IssueFetch(currentFileIndex, graphData.nodes[i].address)
       ELSE UNCHANGED <<inflight, peakPending>>
    /\ UNCHANGED <<updated, graphData, currentFileIndex, rendered, gestures, alphaTarget>>

----------------------------------------------------------------------------
(* drag handlers; d3-drag keeps one gesture per pointer, here one per node *)

SetFx(i, v) ==
    graphData' = [graphData EXCEPT !.nodes[i].fx = v]

\* event.active not consulted
AlphaTargetIgnoringActive(active, target) ==
    IF updated THEN target ELSE alphaTarget

\* if (!event.active && this.simulation) simulation.alphaTarget(target)
AlphaTargetAfter(active, target) ==
    IF active = 0 /\ updated THEN target ELSE alphaTarget

\* "start" is dispatched with event.active = the gestures active before this
\* one; x is the value of d.x
DragStarted(i, x) ==
    /\ i \in 1..rendered
    /\ i \notin gestures
    /\ alphaTarget' = AlphaTargetAfter(Cardinality(gestures), DragAlphaTarget)
    /\ gestures' = gestures \cup {i}
    /\ SetFx(i, x)
    /\ UNCHANGED <<updated, currentFileIndex, inflight, rendered, console, peakPending>>

\* "drag": p is the pointer's position event.x
Dragged(i, p) ==
    /\ i \in gestures
    /\ SetFx(i, p)
    /\ UNCHANGED <<updated, currentFileIndex, inflight, rendered, gestures, alphaTarget,
                   console, peakPending>>

\* "end" is dispatched with event.active = the gestures that stay active
DragEnded(i) ==
    /\ i \in gestures
    /\ gestures' = gestures \ {i}
    /\ alphaTarget' = AlphaTargetAfter(Cardinality(gestures \ {i}), RestAlphaTarget)
    /\ SetFx(i, NULL)
    /\ UNCHANGED <<updated, currentFileIndex, inflight, rendered, console, peakPending>>

\* ticked(): copies node positions into the attributes of the lines, circles
\* and labels; it writes nothing but the DOM
Ticked ==
    /\ updated
    /\ UNCHANGED vars

----------------------------------------------------------------------------
(* The component *)

Next ==
    \/ FirstUpdated
    \/ \E r \in BagToSet(inflight) : FetchRejects(r)
    \/ \E r \in BagToSet(inflight) : FetchNotOk(r)
    \/ \E r \in BagToSet(inflight) : JsonRejects(r)
    \/ \E r \in BagToSet(inflight), data \in DataPages : FetchOk(r, data)
    \/ \E i \in 1..rendered : NodeClick(i)
    \/ \E i \in 1..rendered, x \in Coords : DragStarted(i, x)
    \/ \E i \in gestures, p \in Coords : Dragged(i, p)
    \/ \E i \in gestures : DragEnded(i)
    \/ Ticked

Spec == Init /\ [][Next]_vars

----------------------------------------------------------------------------
(* updateGraph on its own, over every page of a bounded universe *)

PageNodes ==
    { ParsedNode(SeedAddress, "seed", "cex"),
      ParsedNode("0xb", "bob", "token"),
      ParsedNode("0xb", UNDEFINED, "dao"),
      ParsedNode("0xc", "carol", UNDEFINED) }

PageLinks ==
    { ParsedLink("l1", SeedAddress, "0xb"),
      ParsedLink("l1", "0xb", "0xc"),
      ParsedLink("l2", "0xb", "0xc") }

SeqsUpTo(S, n) == UNION { [1..k -> S] : k \in 0..n }

Pages ==
    { Page(ns, ls) :
        ns \in SeqsUpTo(PageNodes, MaxPageNodes), ls \in SeqsUpTo(PageLinks, MaxPageLinks) }

\* the component once firstUpdated() has run, no fetch pending
InitMerge ==
    /\ updated = TRUE
    /\ graphData = [nodes |-> <<>>, links |-> <<>>]
    /\ currentFileIndex = InitialFileIndex
    /\ inflight = EmptyBag
    /\ rendered = 0
    /\ gestures = {}
    /\ alphaTarget = RestAlphaTarget
    /\ console = Message("none", 0, "")
    /\ peakPending = 0

\* one call updateGraph(newData)
MergePage(newData) ==
    /\ UpdateGraphCall(newData)
    /\ UNCHANGED <<updated, currentFileIndex, inflight, gestures, alphaTarget, console,
                   peakPending>>

NextMerge == \E newData \in Pages : MergePage(newData)

SpecMerge == InitMerge /\ [][NextMerge]_vars

----------------------------------------------------------------------------
(* What the claims speak of *)

\* a node's attributes from the data source (not the simulation's fields)
Attr(n) == [address |-> n.address, address_name |-> n.address_name, type |-> n.type]

LinkAttr(l) == [id |-> l.id, from |-> l.from, to |-> l.to]

NodeAttrs(g) == { Attr(g.nodes[i]) : i \in 1..Len(g.nodes) }

LinkAttrs(g) == { LinkAttr(g.links[i]) : i \in 1..Len(g.links) }

NodeAddresses(g) == { g.nodes[i].address : i \in 1..Len(g.nodes) }

LinkIds(g) == { g.links[i].id : i \in 1..Len(g.links) }

\* the graph without the pins
Content(g) ==
    [nodes |-> [i \in 1..Len(g.nodes) |-> Attr(g.nodes[i])], links |-> g.links]

Pending == BagToSet(inflight)

\* the step is the completion of r with a page that passes the acceptance filter
Accepting(r, data) == FetchOk(r, data) /\ LinkContainsAddress(data, r.address)

\* C1: a successful fetch merges its page and advances the cursor by one if
\* and only if some link of the page has from equal to the queried address;
\* otherwise graph and cursor stay as they are.
C1_AcceptedIffLinkFromQueriedAddress ==
    [][\A r \in Pending, data \in DataPages :
          FetchOk(r, data) =>
             IF \E i \in 1..Len(data.links) : data.links[i].from = r.address
             THEN /\ Content(graphData') = Content(UpdateGraph(graphData, data))
                  /\ currentFileIndex' = currentFileIndex + 1
             ELSE /\ Content(graphData') = Content(graphData)
                  /\ currentFileIndex' = currentFileIndex]_vars

\* C2, as stated: the cursor is at most 3 in every reachable state.
C2_CursorAtMostMax == currentFileIndex <= MaxFileIndex

\* C2, amended: the cap of 3 bounds the page index of every pending fetch, and
\* the cursor exceeds 3 by at most the largest number of fetches that were
\* ever pending together.
C2_CursorWithinPeakOfCap ==
    /\ \A r \in Pending : r.fileIndex <= MaxFileIndex /\ r.fileIndex <= currentFileIndex
    /\ currentFileIndex <= MaxFileIndex + peakPending

\* the cursor two past the cap, after two fetches were pending together
C2_Witness == currentFileIndex = MaxFileIndex + 2 /\ peakPending = 2

\* C3: a click with the cursor above 3 issues no fetch and leaves graph and
\* cursor alone; a click with the cursor at most 3 issues exactly one fetch,
\* for the cursor's value and the clicked node's address; so every pending
\* request has a page index in 1..3.
C3_ClickFetchesWithinCap ==
    /\ [](\A r \in Pending : r.fileIndex \in 1..MaxFileIndex)
    /\ [][\A i \in 1..rendered :
            NodeClick(i) =>
               /\ UNCHANGED <<graphData, currentFileIndex>>
               /\ IF currentFileIndex > MaxFileIndex
                  THEN inflight' = inflight
                  ELSE inflight' = inflight (+)
                         SetToBag({Request(currentFileIndex, graphData.nodes[i].address)})]_vars

\* a click was made above the cap while a fetch for page 3 of a clicked node
\* (not the seed) is still pending
C3_Witness ==
    /\ console.site = "click"
    /\ console.fileIndex > MaxFileIndex
    /\ \E r \in Pending : r.fileIndex = MaxFileIndex /\ r.address # SeedAddress

\* C4: a fetch that fails (non-success response, network error, parse error)
\* changes neither graph nor cursor, issues no retry (the pending fetches
\* lose that one request and gain none) and leaves the component as it was.
C4_FailedFetchChangesNothing ==
    [][\A r \in Pending :
          (FetchRejects(r) \/ FetchNotOk(r) \/ JsonRejects(r)) =>
             /\ UNCHANGED <<graphData, currentFileIndex, updated, rendered, gestures,
                            alphaTarget>>
             /\ inflight' (+) SetToBag({r}) = inflight]_vars

\* a non-success response came after the graph had grown, with a fetch pending
C4_Witness ==
    /\ console.site = "loadError"
    /\ Len(graphData.nodes) > 0
    /\ inflight # EmptyBag

NoDuplicates(g) ==
    /\ \A i, j \in 1..Len(g.nodes) : g.nodes[i].address = g.nodes[j].address => i = j
    /\ \A i, j \in 1..Len(g.links) : g.links[i].id = g.links[j].id => i = j

\* C5: the graph only grows: every node stays, with its name and type, and
\* every link stays, with its id, from and to, whatever later pages carry
\* under the same address or id; no address and no id occurs twice.
C5_GraphGrowsFirstSeenWins ==
    /\ [] NoDuplicates(graphData)
    /\ [][/\ NodeAttrs(graphData) \subseteq NodeAttrs(graphData')
          /\ LinkAttrs(graphData) \subseteq LinkAttrs(graphData')]_vars

\* 0xb's page (0xb as "dao", l1 from 0xb) was merged after the seed's page:
\* 0xc and l2 are there, 0xb and l1 are as first seen
C5_Witness ==
    /\ Attr(ParsedNode("0xc", "carol", UNDEFINED)) \in NodeAttrs(graphData)
    /\ Attr(ParsedNode("0xb", "bob", "token")) \in NodeAttrs(graphData)
    /\ LinkAttr(ParsedLink("l1", SeedAddress, "0xb")) \in LinkAttrs(graphData)
    /\ "l2" \in LinkIds(graphData)

\* the page carries nothing the graph does not know
KnownTo(g, data) ==
    /\ \A i \in 1..Len(data.nodes) : data.nodes[i].address \in NodeAddresses(g)
    /\ \A i \in 1..Len(data.links) : data.links[i].id \in LinkIds(g)

\* C6: merging a page whose addresses and ids are all in the graph leaves
\* the graph as it is, and merging any page twice gives what merging it once
\* gives.
C6_MergeIdempotent ==
    \A data \in Pages :
        LET once == UpdateGraph(graphData, data) IN
        /\ UpdateGraph(once, data) = once
        /\ KnownTo(graphData, data) => once = graphData

\* a graph of three nodes and two links, known to pages that fill both bounds
C6_Witness ==
    /\ Len(graphData.nodes) = 3
    /\ Len(graphData.links) = 2
    /\ \E data \in Pages :
          /\ Len(data.nodes) = MaxPageNodes
          /\ Len(data.links) = MaxPageLinks
          /\ KnownTo(graphData, data)

\* every link points at the node its from/to names, or at nothing when no
\* node has that address
EndpointsResolved(g) ==
    \A i \in 1..Len(g.links) :
        LET l == g.links[i] IN
        /\ IF l.from \in NodeAddresses(g)
           THEN l.source \in 1..Len(g.nodes) /\ g.nodes[l.source].address = l.from
           ELSE l.source = 0
        /\ IF l.to \in NodeAddresses(g)
           THEN l.target \in 1..Len(g.nodes) /\ g.nodes[l.target].address = l.to
           ELSE l.target = 0

\* C7: after every merge each link is resolved to the nodes its from/to
\* name, an endpoint without a node is left undefined, and the merge still
\* completes: the graph is replaced and the cursor advanced.
C7_MergeResolvesAndCompletes ==
    [][\A r \in Pending, data \in DataPages :
          Accepting(r, data) =>
             /\ EndpointsResolved(graphData')
             /\ Content(graphData') = Content(UpdateGraph(graphData, data))
             /\ currentFileIndex' = currentFileIndex + 1]_vars

\* C8: the cursor starts at 1 and a step changes it exactly when the step
\* completes a successful fetch whose page passes the acceptance filter, and
\* then by one; so it is 1 plus the number of pages accepted so far.
C8_CursorCountsAcceptedPages ==
    /\ currentFileIndex = InitialFileIndex
    /\ [][/\ currentFileIndex' \in {currentFileIndex, currentFileIndex + 1}
          /\ currentFileIndex' = currentFileIndex + 1
               <=> \E r \in Pending, data \in DataPages : Accepting(r, data)]_vars

\* C9: clicks made before a fetch completes each issue their own request for
\* the same page index, and every response that passes the acceptance filter
\* is merged and advances the cursor by one, whatever the cursor and the
\* graph have become since its request was issued.
C9_EveryAcceptedResponseMergesAndAdvances ==
    [][/\ \A i \in 1..rendered :
            (NodeClick(i) /\ HasMoreFiles(currentFileIndex)) =>
               CopiesIn(Request(currentFileIndex, graphData.nodes[i].address), inflight')
                 = CopiesIn(Request(currentFileIndex, graphData.nodes[i].address), inflight) + 1
       /\ \A r \in Pending, data \in DataPages :
            Accepting(r, data) =>
               /\ NodeAttrs(UpdateGraph(graphData, data)) \subseteq NodeAttrs(graphData')
               /\ LinkAttrs(UpdateGraph(graphData, data)) \subseteq LinkAttrs(graphData')
               /\ currentFileIndex' = currentFileIndex + 1]_vars

Pinned(i) == graphData.nodes[i].fx \in Coords

PinChanged(i) == graphData'.nodes[i].fx # graphData.nodes[i].fx

====
